---- MODULE Spec2Model ----
(***************************************************************************)
(* win-msgbox: the builder over MessageBoxW.  The safe builder             *)
(* (src/src/lib.rs) and the raw builder (src/src/raw.rs) are driven by the *)
(* same chain of configuration calls; show hands the request to the native *)
(* call, which returns a code that show turns into a Result.               *)
(***************************************************************************)
EXTENDS Integers, Sequences, FiniteSets, TLC

VARIABLES
    T,            \* the button-set type parameter of MessageBox<T>
    safe,         \* lib.rs MessageBox: icon, text, title, hwnd, flags
    raw,          \* raw.rs MessageBox: icon, text, title, hwnd, flags
    mem,          \* the caller's wide-string buffers raw pointers refer to
    pc,           \* "build" | "native" (inside MessageBoxW) | "done"
    calls,        \* number of builder calls made on the chain so far
    text_vec,     \* lib.rs show: local `text: Vec<u16>`
    title_vec,    \* lib.rs show: local `title: Vec<u16>`
    safe_call,    \* arguments of MessageBoxW as called by lib.rs show
    raw_call,     \* arguments of MessageBoxW as called by raw.rs show
    ret,          \* return code of MessageBoxW
    last_error,   \* the thread's last-error code (GetLastError)
    safe_result,  \* value returned by lib.rs show
    raw_result,   \* value returned by raw.rs show
    text_arg,     \* history: index of the text given to the constructors
    title_arg,    \* history: index of the last title given (0: title never called)
    aux_called,   \* history: the auxiliary methods called so far
    hwnd_arg,     \* history: the last handle given to hwnd (0: none given)
    icon_arg,     \* history: the last icon set (by new, a constructor or icon)
    defbtn_arg,   \* history: the last button given to default_button ("none")
    native_calls, \* history: MessageBoxW calls made by each show
    error_reads,  \* history: GetLastError calls made by each show
    dismissed     \* history: how the dialog ended: "button", "escape", "other"

vars == <<T, safe, raw, mem, pc, calls, text_vec, title_vec, safe_call,
          raw_call, ret, last_error, safe_result, raw_result,
          text_arg, title_arg, aux_called, hwnd_arg, icon_arg, defbtn_arg,
          native_calls, error_reads, dismissed>>

(***************************************************************************)
(* Bounds                                                                  *)
(***************************************************************************)
\* longest chain of builder calls explored
MaxCalls == 3

(***************************************************************************)
(* windows_sys constants (winuser.h values)                                *)
(***************************************************************************)
MB_OK == 0
MB_OKCANCEL == 1
MB_ABORTRETRYIGNORE == 2
MB_YESNOCANCEL == 3
MB_YESNO == 4
MB_RETRYCANCEL == 5
MB_CANCELTRYCONTINUE == 6

MB_ICONHAND == 16
MB_ICONSTOP == 16
MB_ICONERROR == 16
MB_ICONQUESTION == 32
MB_ICONEXCLAMATION == 48
MB_ICONWARNING == 48
MB_ICONASTERISK == 64
MB_ICONINFORMATION == 64

MB_DEFBUTTON1 == 0
MB_DEFBUTTON2 == 256
MB_DEFBUTTON3 == 512
MB_DEFBUTTON4 == 768

MB_APPLMODAL == 0
MB_SYSTEMMODAL == 4096
MB_TASKMODAL == 8192

MB_HELP == 16384
MB_SETFOREGROUND == 65536
MB_DEFAULT_DESKTOP_ONLY == 131072
MB_TOPMOST == 262144
MB_RIGHT == 524288
MB_RTLREADING == 1048576
MB_SERVICE_NOTIFICATION == 2097152

IDOK == 1
IDCANCEL == 2
IDABORT == 3
IDRETRY == 4
IDIGNORE == 5
IDYES == 6
IDNO == 7
IDTRYAGAIN == 10
IDCONTINUE == 11

(***************************************************************************)
(* u32 bit operations (MESSAGEBOX_STYLE = u32)                             *)
(***************************************************************************)
\* bit by bit
RECURSIVE BitOrBits(_, _)
BitOrBits(a, b) ==
    IF a = 0 THEN b
    ELSE IF b = 0 THEN a
    ELSE (IF (a % 2 = 1) \/ (b % 2 = 1) THEN 1 ELSE 0)
         + 2 * BitOrBits(a \div 2, b \div 2)

RECURSIVE BitAndBits(_, _)
BitAndBits(a, b) ==
    IF a = 0 \/ b = 0 THEN 0
    ELSE (IF (a % 2 = 1) /\ (b % 2 = 1) THEN 1 ELSE 0)
         + 2 * BitAndBits(a \div 2, b \div 2)

\* the same, four bits at a time: the bit-by-bit results of the hex digits
HexDigits == 0..15
OrTable == [x \in HexDigits |-> [y \in HexDigits |-> BitOrBits(x, y)]]
AndTable == [x \in HexDigits |-> [y \in HexDigits |-> BitAndBits(x, y)]]

RECURSIVE BitOr(_, _)
BitOr(a, b) ==
    IF a = 0 THEN b
    ELSE IF b = 0 THEN a
    ELSE OrTable[a % 16][b % 16] + 16 * BitOr(a \div 16, b \div 16)

RECURSIVE BitAnd(_, _)
BitAnd(a, b) ==
    IF a = 0 \/ b = 0 THEN 0
    ELSE AndTable[a % 16][b % 16] + 16 * BitAnd(a \div 16, b \div 16)

(***************************************************************************)
(* Input domains                                                           *)
(***************************************************************************)
Types == {"Okay", "OkayCancel", "AbortRetryIgnore", "CancelTryAgainContinue",
          "RetryCancel", "YesNo", "YesNoCancel"}

Icons == {"Exclamation", "Warning", "Information", "Asterisk", "Question",
          "Stop", "Error", "Hand"}

Modals == {"Application", "System", "Task"}

DefaultButtons == {"DefaultButton1", "DefaultButton2", "DefaultButton3",
                   "DefaultButton4"}

AuxMethods == {"default_desktop_only", "right", "rtl_reading", "set_foreground",
               "topmost", "service_notification", "with_help"}

\* &str values, as sequences of Unicode scalar values:
\* "", "A" U+0000 U+FFFF, U+10000 U+10FFFF U+00E9
Strs == << <<>>, <<65, 0, 65535>>, <<65536, 1114111, 233>> >>

StrIdx == 1..Len(Strs)

\* owner window handles: null and one window
Hwnds == {0, 1}

\* MESSAGEBOX_RESULT (i32) values the native call may return, i32::MIN and
\* i32::MAX among them
RetCodes == {(-2147483647) - 1, -1, 0, 1, 2, 3, 4, 5, 6, 7, 8, 9, 10, 11, 12, 999,
             2147483647}

\* last-error codes set by a failing native call
\* (ERROR_ACCESS_DENIED, ERROR_INVALID_WINDOW_HANDLE)
ErrCodes == {5, 1400}

(***************************************************************************)
(* Button sets: Options::flags and From<MESSAGEBOX_RESULT>                 *)
(***************************************************************************)
Okay_flags == MB_OK
Okay_from(value) == "Okay"

OkayCancel_flags == MB_OKCANCEL
\* variant: the two arms swapped
OkayCancel_from_swapped(value) ==
    CASE value = IDOK -> "Cancel"
      [] OTHER -> "Okay"

OkayCancel_from(value) ==
    CASE value = IDOK -> "Okay"
      [] OTHER -> "Cancel"

AbortRetryIgnore_flags == MB_ABORTRETRYIGNORE
AbortRetryIgnore_from(value) ==
    CASE value = IDABORT -> "Abort"
      [] value = IDRETRY -> "Retry"
      [] OTHER -> "Ignore"

CancelTryAgainContinue_flags == MB_CANCELTRYCONTINUE
\* variant: the Retry identifier taken for the Try Again one
CancelTryAgainContinue_from_retry(value) ==
    CASE value = IDRETRY -> "TryAgain"
      [] value = IDCONTINUE -> "Continue"
      [] OTHER -> "Cancel"

CancelTryAgainContinue_from(value) ==
    CASE value = IDTRYAGAIN -> "TryAgain"
      [] value = IDCONTINUE -> "Continue"
      [] OTHER -> "Cancel"

RetryCancel_flags == MB_RETRYCANCEL
\* variant: the Try Again identifier taken for the Retry one
RetryCancel_from_tryagain(value) ==
    CASE value = IDTRYAGAIN -> "Retry"
      [] OTHER -> "Cancel"

RetryCancel_from(value) ==
    CASE value = IDRETRY -> "Retry"
      [] OTHER -> "Cancel"

YesNo_flags == MB_YESNO
YesNo_from(value) ==
    CASE value = IDYES -> "Yes"
      [] OTHER -> "No"

YesNoCancel_flags == MB_YESNOCANCEL
YesNoCancel_from(value) ==
    CASE value = IDYES -> "Yes"
      [] value = IDNO -> "No"
      [] OTHER -> "Cancel"

\* T::flags(), dispatched on the type parameter
flags(ty) ==
    CASE ty = "Okay" -> Okay_flags
      [] ty = "OkayCancel" -> OkayCancel_flags
      [] ty = "AbortRetryIgnore" -> AbortRetryIgnore_flags
      [] ty = "CancelTryAgainContinue" -> CancelTryAgainContinue_flags
      [] ty = "RetryCancel" -> RetryCancel_flags
      [] ty = "YesNo" -> YesNo_flags
      [] ty = "YesNoCancel" -> YesNoCancel_flags

\* T::from(x), dispatched on the type parameter
from(ty, value) ==
    CASE ty = "Okay" -> Okay_from(value)
      [] ty = "OkayCancel" -> OkayCancel_from(value)
      [] ty = "AbortRetryIgnore" -> AbortRetryIgnore_from(value)
      [] ty = "CancelTryAgainContinue" -> CancelTryAgainContinue_from(value)
      [] ty = "RetryCancel" -> RetryCancel_from(value)
      [] ty = "YesNo" -> YesNo_from(value)
      [] ty = "YesNoCancel" -> YesNoCancel_from(value)

(***************************************************************************)
(* Icon, Modal, DefaultButton                                              *)
(***************************************************************************)
\* variant: Asterisk given the flag of the other alias pair
style_asterisk_as_exclamation(ic) ==
    CASE ic = "Exclamation" -> MB_ICONEXCLAMATION
      [] ic = "Warning" -> MB_ICONWARNING
      [] ic = "Information" -> MB_ICONINFORMATION
      [] ic = "Asterisk" -> MB_ICONEXCLAMATION
      [] ic = "Question" -> MB_ICONQUESTION
      [] ic = "Stop" -> MB_ICONSTOP
      [] ic = "Error" -> MB_ICONERROR
      [] ic = "Hand" -> MB_ICONHAND

\* variant: the enum discriminant (`self as u32`) instead of the MB_ICON flag
style_discriminant(ic) ==
    CASE ic = "Exclamation" -> 0
      [] ic = "Warning" -> 1
      [] ic = "Information" -> 2
      [] ic = "Asterisk" -> 3
      [] ic = "Question" -> 4
      [] ic = "Stop" -> 5
      [] ic = "Error" -> 6
      [] ic = "Hand" -> 7

\* Icon::style
style(ic) ==
    CASE ic = "Exclamation" -> MB_ICONEXCLAMATION
      [] ic = "Warning" -> MB_ICONWARNING
      [] ic = "Information" -> MB_ICONINFORMATION
      [] ic = "Asterisk" -> MB_ICONASTERISK
      [] ic = "Question" -> MB_ICONQUESTION
      [] ic = "Stop" -> MB_ICONSTOP
      [] ic = "Error" -> MB_ICONERROR
      [] ic = "Hand" -> MB_ICONHAND

\* `modal as u32`: the discriminants of enum Modal
Modal_as_u32(m) ==
    CASE m = "Application" -> MB_APPLMODAL
      [] m = "System" -> MB_SYSTEMMODAL
      [] m = "Task" -> MB_TASKMODAL

\* `btn as u32`: the discriminants of enum DefaultButton
DefaultButton_as_u32(b) ==
    CASE b = "DefaultButton1" -> MB_DEFBUTTON1
      [] b = "DefaultButton2" -> MB_DEFBUTTON2
      [] b = "DefaultButton3" -> MB_DEFBUTTON3
      [] b = "DefaultButton4" -> MB_DEFBUTTON4

\* the flag each auxiliary builder method ORs into self.flags
AuxFlag(method) ==
    CASE method = "default_desktop_only" -> MB_DEFAULT_DESKTOP_ONLY
      [] method = "right" -> MB_RIGHT
      [] method = "rtl_reading" -> MB_RTLREADING
      [] method = "set_foreground" -> MB_SETFOREGROUND
      [] method = "topmost" -> MB_TOPMOST
      [] method = "service_notification" -> MB_SERVICE_NOTIFICATION
      [] method = "with_help" -> MB_HELP

(***************************************************************************)
(* Strings, pointers and results                                           *)
(***************************************************************************)
\* char::encode_utf16: one unit in the BMP, a surrogate pair above it
encode_char(c) ==
    IF c < 65536 THEN <<c>>
    ELSE <<55296 + ((c - 65536) \div 1024), 56320 + ((c - 65536) % 1024)>>

\* str::encode_utf16
RECURSIVE encode_utf16(_)
encode_utf16(s) ==
    IF s = <<>> THEN <<>>
    ELSE encode_char(Head(s)) \o encode_utf16(Tail(s))

\* windows_sys::w!: a null-terminated UTF-16 literal
w(s) == encode_utf16(s) \o <<0>>

NULL == [region |-> "null", addr |-> 0]
\* pointer to the caller's wide buffer number i
CallerPtr(i) == [region |-> "caller", addr |-> i]
\* Vec::as_ptr of a local Vec of lib.rs show
VecPtr(name) == [region |-> name, addr |-> 0]

None == [some |-> FALSE, val |-> <<>>]
Some(t) == [some |-> TRUE, val |-> t]

Ok(case) == [tag |-> "Ok", case |-> case, code |-> 0]
Err(code) == [tag |-> "Err", case |-> "", code |-> code]
NoResult == [tag |-> "none", case |-> "", code |-> 0]

NoCall == [hWnd |-> 0, lpText |-> NULL, lpCaption |-> NULL, uType |-> 0]
\* a builder consumed by show(self)
Moved == [icon |-> "moved", text |-> <<>>, title |-> None, hwnd |-> 0, flags |-> 0]
RawMoved == [icon |-> "moved", text |-> NULL, title |-> NULL, hwnd |-> 0, flags |-> 0]

\* the units MessageBoxW reads through a pointer argument
Deref(p) ==
    CASE p.region = "caller" -> mem[p.addr]
      [] p.region = "text" -> text_vec
      [] p.region = "title" -> title_vec

(***************************************************************************)
(* lib.rs MessageBox<'a, T>: the safe builder                              *)
(***************************************************************************)
\* variant: the first enum variant as the default icon
new_first_icon(text) ==
    [icon |-> "Exclamation", text |-> text, title |-> None, hwnd |-> 0,
     flags |-> 0]

new(text) ==
    [icon |-> "Information", text |-> text, title |-> None, hwnd |-> 0,
     flags |-> 0]

icon(self, ic) == [self EXCEPT !.icon = ic]

title(self, t) == [self EXCEPT !.title = Some(t)]

hwnd(self, h) == [self EXCEPT !.hwnd = h]

modal(self, m) == [self EXCEPT !.flags = BitOr(@, Modal_as_u32(m))]

default_button(self, btn) ==
    [self EXCEPT !.flags = BitOr(@, DefaultButton_as_u32(btn))]

default_desktop_only(self) ==
    [self EXCEPT !.flags = BitOr(@, MB_DEFAULT_DESKTOP_ONLY)]

\* variant: `+=` instead of `|=`
right_add(self) == [self EXCEPT !.flags = @ + MB_RIGHT]

right(self) == [self EXCEPT !.flags = BitOr(@, MB_RIGHT)]

rtl_reading(self) == [self EXCEPT !.flags = BitOr(@, MB_RTLREADING)]

set_foreground(self) == [self EXCEPT !.flags = BitOr(@, MB_SETFOREGROUND)]

topmost(self) == [self EXCEPT !.flags = BitOr(@, MB_TOPMOST)]

\* variant: the owner reset to null, enforcing what the doc asks of the caller
service_notification_clears_hwnd(self) ==
    [self EXCEPT !.flags = BitOr(@, MB_SERVICE_NOTIFICATION), !.hwnd = 0]

service_notification(self) ==
    [self EXCEPT !.flags = BitOr(@, MB_SERVICE_NOTIFICATION)]

with_help(self) == [self EXCEPT !.flags = BitOr(@, MB_HELP)]

\* variant: the `.icon(Icon::$icon)` left out
ctors_forget_icon(ic, text) == new(text)

\* ctors!: $name(text) = Self::new(text).icon(Icon::$icon)
ctors(ic, text) == icon(new(text), ic)

\* variant: the terminator left out
show_text_unterminated(self) == encode_utf16(self.text)

\* show: `let text: Vec<_> = self.text.encode_utf16().chain(once(0)).collect()`
show_text(self) == encode_utf16(self.text) \o <<0>>

\* variant: an empty title treated as no title
show_title_skip_empty(self) ==
    IF self.title.some /\ self.title.val # <<>>
    THEN encode_utf16(self.title.val) \o <<0>>
    ELSE <<>>

\* show: `let title = match self.title { Some(t) => ..., None => Vec::new() }`
show_title(self) ==
    IF self.title.some THEN encode_utf16(self.title.val) \o <<0>> ELSE <<>>

\* show: the arguments of the MessageBoxW call
show_MessageBoxW(ty, self, text, ttl) ==
    [hWnd |-> self.hwnd,
     lpText |-> VecPtr("text"),
     lpCaption |-> IF ttl = <<>> THEN NULL ELSE VecPtr("title"),
     uType |-> BitOr(BitOr(flags(ty), style(self.icon)), self.flags)]

\* variant: every non-positive code taken for a failure
show_match_nonpositive(ty, return_code, GetLastError) ==
    IF return_code <= 0 THEN Err(GetLastError) ELSE Ok(from(ty, return_code))

\* show: `match return_code { 0 => Err(GetLastError()), x => Ok(T::from(x)) }`
show_match(ty, return_code, GetLastError) ==
    IF return_code = 0 THEN Err(GetLastError) ELSE Ok(from(ty, return_code))

(***************************************************************************)
(* raw.rs MessageBox<T>: the raw builder                                   *)
(***************************************************************************)
raw_new(text) ==
    [icon |-> "Information", text |-> text, title |-> NULL, hwnd |-> 0,
     flags |-> 0]

raw_icon(self, ic) == [self EXCEPT !.icon = ic]

\* variant: the title pointer stored in the text field
raw_title_into_text(self, t) == [self EXCEPT !.text = t]

raw_title(self, t) == [self EXCEPT !.title = t]

raw_hwnd(self, h) == [self EXCEPT !.hwnd = h]

raw_modal(self, m) == [self EXCEPT !.flags = BitOr(@, Modal_as_u32(m))]

raw_default_button(self, btn) ==
    [self EXCEPT !.flags = BitOr(@, DefaultButton_as_u32(btn))]

raw_default_desktop_only(self) ==
    [self EXCEPT !.flags = BitOr(@, MB_DEFAULT_DESKTOP_ONLY)]

raw_right(self) == [self EXCEPT !.flags = BitOr(@, MB_RIGHT)]

raw_rtl_reading(self) == [self EXCEPT !.flags = BitOr(@, MB_RTLREADING)]

raw_set_foreground(self) == [self EXCEPT !.flags = BitOr(@, MB_SETFOREGROUND)]

\* variant: the flag of the neighbouring method
raw_topmost_as_foreground(self) ==
    [self EXCEPT !.flags = BitOr(@, MB_SETFOREGROUND)]

raw_topmost(self) == [self EXCEPT !.flags = BitOr(@, MB_TOPMOST)]

raw_service_notification(self) ==
    [self EXCEPT !.flags = BitOr(@, MB_SERVICE_NOTIFICATION)]

raw_with_help(self) == [self EXCEPT !.flags = BitOr(@, MB_HELP)]

raw_ctors(ic, text) == raw_icon(raw_new(text), ic)

\* raw show: the arguments of the MessageBoxW call
raw_show_MessageBoxW(ty, self) ==
    [hWnd |-> self.hwnd,
     lpText |-> self.text,
     lpCaption |-> self.title,
     uType |-> BitOr(BitOr(flags(ty), style(self.icon)), self.flags)]

\* raw show: `match return_code { 0 => Err(GetLastError()), x => Ok(T::from(x)) }`
raw_show_match(ty, return_code, GetLastError) ==
    IF return_code = 0 THEN Err(GetLastError) ELSE Ok(from(ty, return_code))

(***************************************************************************)
(* The dialog, as the doc comments describe it                             *)
(***************************************************************************)
\* the identifiers of the push buttons the dialog displays for a style
\* ("The message box contains ... push buttons: ...")
DialogButtons(uType) ==
    LET type == BitAnd(uType, 15) IN
    CASE type = MB_OK -> {IDOK}
      [] type = MB_OKCANCEL -> {IDOK, IDCANCEL}
      [] type = MB_ABORTRETRYIGNORE -> {IDABORT, IDRETRY, IDIGNORE}
      [] type = MB_YESNOCANCEL -> {IDYES, IDNO, IDCANCEL}
      [] type = MB_YESNO -> {IDYES, IDNO}
      [] type = MB_RETRYCANCEL -> {IDRETRY, IDCANCEL}
      [] type = MB_CANCELTRYCONTINUE -> {IDCANCEL, IDTRYAGAIN, IDCONTINUE}
      [] OTHER -> {}

\* variant: the last error read before the match, whatever the code
show_GetLastError_calls_eager(return_code) == 1

\* show reads the last error in the `0 =>` arm of the match only
show_GetLastError_calls(return_code) == IF return_code = 0 THEN 1 ELSE 0

raw_show_GetLastError_calls(return_code) == IF return_code = 0 THEN 1 ELSE 0

(***************************************************************************)
(* The state machine                                                       *)
(***************************************************************************)
\* MessageBox::<T>::new(text) and raw::MessageBox::<T>::new(w!(text))
Init ==
    /\ T \in Types
    /\ text_arg \in StrIdx
    /\ mem = [i \in StrIdx |-> w(Strs[i])]
    /\ safe = new(Strs[text_arg])
    /\ raw = raw_new(CallerPtr(text_arg))
    /\ pc = "build"
    /\ calls = 0
    /\ text_vec = <<>>
    /\ title_vec = <<>>
    /\ safe_call = NoCall
    /\ raw_call = NoCall
    /\ ret = 0
    /\ last_error = 0
    /\ safe_result = NoResult
    /\ raw_result = NoResult
    /\ title_arg = 0
    /\ aux_called = {}
    /\ hwnd_arg = 0
    /\ icon_arg = "Information"
    /\ defbtn_arg = "none"
    /\ native_calls = [safe |-> 0, raw |-> 0]
    /\ error_reads = [safe |-> 0, raw |-> 0]
    /\ dismissed = "none"

\* what every builder call leaves alone
BuilderFrame ==
    /\ pc = "build"
    /\ calls < MaxCalls
    /\ calls' = calls + 1
    /\ UNCHANGED <<T, mem, pc, text_vec, title_vec, safe_call, raw_call, ret,
                   last_error, safe_result, raw_result, text_arg,
                   native_calls, error_reads, dismissed>>

\* a convenience constructor instead of new: exclamation(text), ..., hand(text)
Ctor ==
    /\ calls = 0
    /\ BuilderFrame
    /\ \E ic \in Icons :
          /\ safe' = ctors(ic, Strs[text_arg])
          /\ raw' = raw_ctors(ic, CallerPtr(text_arg))
          /\ icon_arg' = ic
    /\ UNCHANGED <<title_arg, aux_called, hwnd_arg, defbtn_arg>>

CallIcon ==
    /\ BuilderFrame
    /\ \E ic \in Icons :
          /\ safe' = icon(safe, ic)
          /\ raw' = raw_icon(raw, ic)
          /\ icon_arg' = ic
    /\ UNCHANGED <<title_arg, aux_called, hwnd_arg, defbtn_arg>>

CallTitle ==
    /\ BuilderFrame
    /\ \E i \in StrIdx :
          /\ safe' = title(safe, Strs[i])
          /\ raw' = raw_title(raw, CallerPtr(i))
          /\ title_arg' = i
    /\ UNCHANGED <<aux_called, hwnd_arg, icon_arg, defbtn_arg>>

CallHwnd ==
    /\ BuilderFrame
    /\ \E h \in Hwnds :
          /\ safe' = hwnd(safe, h)
          /\ raw' = raw_hwnd(raw, h)
          /\ hwnd_arg' = h
    /\ UNCHANGED <<title_arg, aux_called, icon_arg, defbtn_arg>>

CallModal ==
    /\ BuilderFrame
    /\ \E m \in Modals :
          /\ safe' = modal(safe, m)
          /\ raw' = raw_modal(raw, m)
    /\ UNCHANGED <<title_arg, aux_called, hwnd_arg, icon_arg, defbtn_arg>>

CallDefaultButton ==
    /\ BuilderFrame
    /\ \E b \in DefaultButtons :
          /\ safe' = default_button(safe, b)
          /\ raw' = raw_default_button(raw, b)
          /\ defbtn_arg' = b
    /\ UNCHANGED <<title_arg, aux_called, hwnd_arg, icon_arg>>

CallDefaultDesktopOnly ==
    /\ BuilderFrame
    /\ safe' = default_desktop_only(safe)
    /\ raw' = raw_default_desktop_only(raw)
    /\ aux_called' = aux_called \cup {"default_desktop_only"}
    /\ UNCHANGED <<title_arg, hwnd_arg, icon_arg, defbtn_arg>>

CallRight ==
    /\ BuilderFrame
    /\ safe' = right(safe)
    /\ raw' = raw_right(raw)
    /\ aux_called' = aux_called \cup {"right"}
    /\ UNCHANGED <<title_arg, hwnd_arg, icon_arg, defbtn_arg>>

CallRtlReading ==
    /\ BuilderFrame
    /\ safe' = rtl_reading(safe)
    /\ raw' = raw_rtl_reading(raw)
    /\ aux_called' = aux_called \cup {"rtl_reading"}
    /\ UNCHANGED <<title_arg, hwnd_arg, icon_arg, defbtn_arg>>

CallSetForeground ==
    /\ BuilderFrame
    /\ safe' = set_foreground(safe)
    /\ raw' = raw_set_foreground(raw)
    /\ aux_called' = aux_called \cup {"set_foreground"}
    /\ UNCHANGED <<title_arg, hwnd_arg, icon_arg, defbtn_arg>>

CallTopmost ==
    /\ BuilderFrame
    /\ safe' = topmost(safe)
    /\ raw' = raw_topmost(raw)
    /\ aux_called' = aux_called \cup {"topmost"}
    /\ UNCHANGED <<title_arg, hwnd_arg, icon_arg, defbtn_arg>>

CallServiceNotification ==
    /\ BuilderFrame
    /\ safe' = service_notification(safe)
    /\ raw' = raw_service_notification(raw)
    /\ aux_called' = aux_called \cup {"service_notification"}
    /\ UNCHANGED <<title_arg, hwnd_arg, icon_arg, defbtn_arg>>

CallWithHelp ==
    /\ BuilderFrame
    /\ safe' = with_help(safe)
    /\ raw' = raw_with_help(raw)
    /\ aux_called' = aux_called \cup {"with_help"}
    /\ UNCHANGED <<title_arg, hwnd_arg, icon_arg, defbtn_arg>>

\* show(self), up to the point where the thread is inside MessageBoxW
Show ==
    /\ pc = "build"
    /\ pc' = "native"
    /\ text_vec' = show_text(safe)
    /\ title_vec' = show_title(safe)
    /\ safe_call' = show_MessageBoxW(T, safe, text_vec', title_vec')
    /\ raw_call' = raw_show_MessageBoxW(T, raw)
    /\ native_calls' = [safe |-> native_calls.safe + 1,
                        raw |-> native_calls.raw + 1]
    /\ UNCHANGED <<T, mem, safe, raw, calls, ret, last_error, safe_result,
                   raw_result, text_arg, title_arg, aux_called, hwnd_arg,
                   icon_arg, defbtn_arg, error_reads, dismissed>>

\* MessageBoxW returns r; show matches on the code, reads the last error on
\* failure, drops its locals and returns.  self was consumed by show.
ReturnWith(r, how) ==
    /\ pc = "native"
    /\ pc' = "done"
    /\ ret' = r
    /\ IF r = 0 THEN last_error' \in ErrCodes
                ELSE last_error' = last_error
    /\ safe_result' = show_match(T, ret', last_error')
    /\ raw_result' = raw_show_match(T, ret', last_error')
    /\ error_reads' =
          [safe |-> error_reads.safe + show_GetLastError_calls(ret'),
           raw |-> error_reads.raw + raw_show_GetLastError_calls(ret')]
    /\ dismissed' = how
    /\ text_vec' = <<>>
    /\ title_vec' = <<>>
    /\ safe' = Moved
    /\ raw' = RawMoved
    /\ safe_call' = NoCall
    /\ raw_call' = NoCall
    /\ calls' = 0
    /\ title_arg' = 0
    /\ aux_called' = {}
    /\ hwnd_arg' = 0
    /\ icon_arg' = "Information"
    /\ defbtn_arg' = "none"
    /\ UNCHANGED <<T, mem, text_arg, native_calls>>

\* MessageBoxW returns some code: a failure (0) or any identifier
Return == \E r \in RetCodes : ReturnWith(r, "other")

\* the user selects one of the buttons the dialog displays
ClickButton ==
    \E b \in DialogButtons(safe_call.uType) : ReturnWith(b, "button")

\* the user presses ESC: Cancel if there is a Cancel button, else OK if there
\* is an OK button, else nothing happens and the dialog stays open
PressEscape ==
    /\ pc = "native"
    /\ LET buttons == DialogButtons(safe_call.uType) IN
       IF IDCANCEL \in buttons THEN ReturnWith(IDCANCEL, "escape")
       ELSE IF IDOK \in buttons THEN ReturnWith(IDOK, "escape")
       ELSE UNCHANGED vars

Next ==
    \/ Ctor
    \/ CallIcon
    \/ CallTitle
    \/ CallHwnd
    \/ CallModal
    \/ CallDefaultButton
    \/ CallDefaultDesktopOnly
    \/ CallRight
    \/ CallRtlReading
    \/ CallSetForeground
    \/ CallTopmost
    \/ CallServiceNotification
    \/ CallWithHelp
    \/ Show
    \/ Return
    \/ ClickButton
    \/ PressEscape

Spec == Init /\ [][Next]_vars

(***************************************************************************)
(* Vocabulary of the properties                                            *)
(***************************************************************************)
\* bitwise OR of all the flags of a set
RECURSIVE OrAll(_)
OrAll(S) ==
    IF S = {} THEN 0
    ELSE LET f == CHOOSE x \in S : TRUE IN BitOr(f, OrAll(S \ {f}))

ButtonFlags == {flags(ty) : ty \in Types}
IconFlags == {style(ic) : ic \in Icons}
ModalFlags == {Modal_as_u32(m) : m \in Modals}
DefaultButtonFlags == {DefaultButton_as_u32(b) : b \in DefaultButtons}
AuxFlags == {AuxFlag(m) : m \in AuxMethods}

FlagGroups == <<ButtonFlags, IconFlags, ModalFlags, DefaultButtonFlags, AuxFlags>>

\* all the bits a group may set
ButtonMask == OrAll(ButtonFlags)
IconMask == OrAll(IconFlags)
ModalMask == OrAll(ModalFlags)
DefaultButtonMask == OrAll(DefaultButtonFlags)
AuxMask == OrAll(AuxFlags)

\* no flag shares a set bit with a flag of another group
PairwiseDisjoint ==
    \A g \in 1..Len(FlagGroups) : \A h \in 1..Len(FlagGroups) :
        g # h => \A f1 \in FlagGroups[g] : \A f2 \in FlagGroups[h] :
                    BitAnd(f1, f2) = 0

\* the cases of each button-set type
Cases(ty) ==
    CASE ty = "Okay" -> {"Okay"}
      [] ty = "OkayCancel" -> {"Okay", "Cancel"}
      [] ty = "AbortRetryIgnore" -> {"Abort", "Retry", "Ignore"}
      [] ty = "CancelTryAgainContinue" -> {"Cancel", "TryAgain", "Continue"}
      [] ty = "RetryCancel" -> {"Retry", "Cancel"}
      [] ty = "YesNo" -> {"Yes", "No"}
      [] ty = "YesNoCancel" -> {"Yes", "No", "Cancel"}

\* the documented recognized codes of each button-set type, as <<code, case>>
Recognized(ty) ==
    CASE ty = "Okay" -> {}
      [] ty = "OkayCancel" -> {<<IDOK, "Okay">>}
      [] ty = "AbortRetryIgnore" -> {<<IDABORT, "Abort">>, <<IDRETRY, "Retry">>}
      [] ty = "CancelTryAgainContinue" ->
            {<<IDTRYAGAIN, "TryAgain">>, <<IDCONTINUE, "Continue">>}
      [] ty = "RetryCancel" -> {<<IDRETRY, "Retry">>}
      [] ty = "YesNo" -> {<<IDYES, "Yes">>}
      [] ty = "YesNoCancel" -> {<<IDYES, "Yes">>, <<IDNO, "No">>}

\* the documented fallback case of each button-set type
Fallback(ty) ==
    CASE ty = "Okay" -> "Okay"
      [] ty = "OkayCancel" -> "Cancel"
      [] ty = "AbortRetryIgnore" -> "Ignore"
      [] ty = "CancelTryAgainContinue" -> "Cancel"
      [] ty = "RetryCancel" -> "Cancel"
      [] ty = "YesNo" -> "No"
      [] ty = "YesNoCancel" -> "Cancel"

Documented(ty, c) ==
    IF \E p \in Recognized(ty) : p[1] = c
    THEN (CHOOSE p \in Recognized(ty) : p[1] = c)[2]
    ELSE Fallback(ty)

\* from_result agrees with the documented table on every code
FromResultAsDocumented ==
    \A ty \in Types : \A c \in RetCodes :
        /\ from(ty, c) \in Cases(ty)
        /\ from(ty, c) = Documented(ty, c)

(***************************************************************************)
(* C1                                                                      *)
(***************************************************************************)
\* C1: for every button-set type and every native return code r, show (safe
\* and raw) returns Err(e) exactly when r = 0, e being the last-error code
\* read after the call, and Ok(T::from(r)) exactly when r is non-zero.
C1_ShowResult ==
    pc = "done" =>
        /\ (ret = 0) <=> (safe_result.tag = "Err")
        /\ (ret = 0) <=> (raw_result.tag = "Err")
        /\ (ret # 0) <=> (safe_result.tag = "Ok")
        /\ (ret # 0) <=> (raw_result.tag = "Ok")
        /\ ret = 0 => /\ safe_result = Err(last_error)
                      /\ raw_result = Err(last_error)
        /\ ret # 0 => /\ safe_result = Ok(from(T, ret))
                      /\ raw_result = Ok(from(T, ret))

\* a failed call whose last-error code equals a button identifier (5 = IDIGNORE)
C1_Witness ==
    /\ pc = "done"
    /\ T = "AbortRetryIgnore"
    /\ ret = 0
    /\ last_error = 5
    /\ safe_result = Err(5)
    /\ raw_result = Err(5)

(***************************************************************************)
(* C2                                                                      *)
(***************************************************************************)
\* C2: for each of the seven button-set types and every result code c,
\* from_result(c) is a case of that type: the documented case for a recognized
\* code and the documented fallback for every other code.
C2_FromResultTotal ==
    /\ FromResultAsDocumented
    /\ (pc = "done" /\ ret # 0) =>
          /\ safe_result.case \in Cases(T)
          /\ safe_result.case = Documented(T, ret)
          /\ raw_result.case = Documented(T, ret)

\* an unrecognized code resolved by the fallback
C2_Witness ==
    /\ pc = "done"
    /\ T = "CancelTryAgainContinue"
    /\ ret = 999
    /\ safe_result = Ok("Cancel")

(***************************************************************************)
(* C3                                                                      *)
(***************************************************************************)
\* C3: a request built with new(text) and nothing else reaches the native call
\* with a null title, a null owner and the style T::flags() | MB_ICONINFORMATION,
\* no modality, default-button or auxiliary bit set.
C3_Defaults ==
    (pc = "native" /\ calls = 0) =>
        /\ safe_call.lpCaption = NULL
        /\ raw_call.lpCaption = NULL
        /\ safe_call.hWnd = 0
        /\ raw_call.hWnd = 0
        /\ safe_call.uType = BitOr(flags(T), MB_ICONINFORMATION)
        /\ raw_call.uType = BitOr(flags(T), MB_ICONINFORMATION)
        /\ BitAnd(safe_call.uType, ModalMask) = 0
        /\ BitAnd(safe_call.uType, DefaultButtonMask) = 0
        /\ BitAnd(safe_call.uType, AuxMask) = 0
        /\ BitAnd(safe_call.uType, IconMask) = MB_ICONINFORMATION

C3_Witness ==
    /\ pc = "native"
    /\ calls = 0
    /\ T = "YesNo"
    /\ safe_call.uType = 68
    /\ safe_call.lpCaption = NULL

(***************************************************************************)
(* C4                                                                      *)
(***************************************************************************)
\* C4: the flag groups (button set, icon, modality, default button, auxiliary)
\* are pairwise disjoint bit patterns, so each group's choice can be read back
\* from the composed style whatever the other groups chose.
C4_GroupsDisjoint ==
    /\ PairwiseDisjoint
    /\ pc = "native" =>
          /\ BitAnd(safe_call.uType, ButtonMask) = flags(T)
          /\ BitAnd(safe_call.uType, IconMask) = style(safe.icon)
          /\ BitAnd(safe_call.uType, ModalMask) =
                BitAnd(safe.flags, ModalMask)
          /\ BitAnd(safe_call.uType, DefaultButtonMask) =
                BitAnd(safe.flags, DefaultButtonMask)
          /\ BitAnd(safe_call.uType, AuxMask) =
                BitAnd(safe.flags, AuxMask)

\* one non-zero choice from every group in one style
C4_Witness ==
    /\ pc = "native"
    /\ T = "YesNoCancel"
    /\ BitAnd(safe_call.uType, ButtonMask) = MB_YESNOCANCEL
    /\ BitAnd(safe_call.uType, IconMask) = MB_ICONINFORMATION
    /\ BitAnd(safe_call.uType, MB_TASKMODAL) # 0
    /\ BitAnd(safe_call.uType, MB_DEFBUTTON2) # 0
    /\ BitAnd(safe_call.uType, MB_HELP) # 0

(***************************************************************************)
(* C5                                                                      *)
(***************************************************************************)
\* C5: modality is mutually exclusive: whatever builder calls were made, the
\* style passed to the native call has at most one of MB_SYSTEMMODAL and
\* MB_TASKMODAL set.
C5_ModalExclusive ==
    pc = "native" =>
        /\ ~ (/\ BitAnd(safe_call.uType, MB_SYSTEMMODAL) # 0
              /\ BitAnd(safe_call.uType, MB_TASKMODAL) # 0)
        /\ ~ (/\ BitAnd(raw_call.uType, MB_SYSTEMMODAL) # 0
              /\ BitAnd(raw_call.uType, MB_TASKMODAL) # 0)

\* the bits a set of auxiliary methods sets
AuxCalledMask ==
    [S \in SUBSET AuxMethods |-> OrAll({AuxFlag(m) : m \in S})]

\* in the bits of a set of methods, a method's bit is set exactly when the
\* method is in the set
AuxBitsTellCalls ==
    \A S \in SUBSET AuxMethods : \A m \in AuxMethods :
        (BitAnd(AuxCalledMask[S], AuxFlag(m)) # 0) <=> (m \in S)

(***************************************************************************)
(* C6                                                                      *)
(***************************************************************************)
\* C6: the auxiliary bits of the builder's flags, and of the composed style,
\* are exactly the flags of the set of auxiliary methods called, whatever the
\* order of the calls and however often each was made.
C6_AuxExactlyCalled ==
    LET called == AuxCalledMask[aux_called] IN
    /\ AuxBitsTellCalls
    /\ pc \in {"build", "native"} =>
          /\ BitAnd(safe.flags, AuxMask) = called
          /\ BitAnd(raw.flags, AuxMask) = called
    /\ pc = "native" =>
          /\ BitAnd(safe_call.uType, AuxMask) = called
          /\ BitAnd(raw_call.uType, AuxMask) = called

\* .right().topmost().with_help() in the style of the native call
C6_Witness ==
    /\ pc = "native"
    /\ aux_called = {"right", "topmost", "with_help"}
    /\ BitAnd(safe_call.uType, AuxMask) = MB_RIGHT + MB_TOPMOST + MB_HELP

(***************************************************************************)
(* C7                                                                      *)
(***************************************************************************)
\* C7: in the safe show the title pointer is null exactly when title was
\* never called; after title(t), the empty string included, it is non-null
\* and refers to the null-terminated encoding of the last t given.
C7_TitlePointer ==
    pc = "native" =>
        /\ (safe_call.lpCaption = NULL) <=> (title_arg = 0)
        /\ title_arg # 0 =>
              /\ safe_call.lpCaption.region = "title"
              /\ Deref(safe_call.lpCaption) =
                    encode_utf16(Strs[title_arg]) \o <<0>>

\* title("") gives a non-null pointer to a lone terminator
C7_Witness ==
    /\ pc = "native"
    /\ title_arg # 0
    /\ Strs[title_arg] = <<>>
    /\ safe_call.lpCaption # NULL
    /\ Deref(safe_call.lpCaption) = <<0>>

(***************************************************************************)
(* C8                                                                      *)
(***************************************************************************)
\* the number of UTF-16 units of a string
RECURSIVE Utf16Units(_)
Utf16Units(s) ==
    IF s = <<>> THEN 0
    ELSE (IF Head(s) > 65535 THEN 2 ELSE 1) + Utf16Units(Tail(s))

IsHigh(u) == u >= 55296 /\ u <= 56319
IsLow(u) == u >= 56320 /\ u <= 57343

\* UTF-16 decoding: a surrogate pair is one code point above U+FFFF
RECURSIVE decode_utf16(_)
decode_utf16(u) ==
    IF u = <<>> THEN <<>>
    ELSE IF Len(u) >= 2 /\ IsHigh(u[1]) /\ IsLow(u[2])
         THEN <<65536 + (u[1] - 55296) * 1024 + (u[2] - 56320)>>
              \o decode_utf16(SubSeq(u, 3, Len(u)))
         ELSE <<u[1]>> \o decode_utf16(Tail(u))

\* buf is the UTF-16 encoding of s followed by one terminating 0 unit
IsWideOf(buf, s) ==
    /\ Len(buf) = Utf16Units(s) + 1
    /\ buf[Len(buf)] = 0
    /\ \A i \in 1..Len(buf) : buf[i] \in 0..65535
    /\ decode_utf16(SubSeq(buf, 1, Len(buf) - 1)) = s
    /\ \A i \in 1..(Len(buf) - 1) :
          IsHigh(buf[i]) => (i < Len(buf) - 1 /\ IsLow(buf[i + 1]))

\* C8: while the native call is in progress, the text buffer (and the title
\* buffer when a title is set) it was handed is the show's own Vec holding the
\* UTF-16 encoding of the string followed by exactly one terminating 0 unit,
\* code points above U+FFFF as surrogate pairs.
C8_WideBuffers ==
    pc = "native" =>
        /\ safe_call.lpText.region = "text"
        /\ IsWideOf(Deref(safe_call.lpText), Strs[text_arg])
        /\ title_arg # 0 =>
              /\ safe_call.lpCaption.region = "title"
              /\ IsWideOf(Deref(safe_call.lpCaption), Strs[title_arg])

\* a text of three code points, two of them above U+FFFF: five units and 0
C8_Witness ==
    /\ pc = "native"
    /\ Strs[text_arg] = <<65536, 1114111, 233>>
    /\ text_vec = <<55296, 56320, 56319, 57343, 233, 0>>
    /\ title_arg # 0
    /\ Strs[title_arg] = <<65, 0, 65535>>
    /\ title_vec = <<65, 0, 65535, 0>>

(***************************************************************************)
(* C9                                                                      *)
(***************************************************************************)
\* C9: in raw mode the text and title pointers given to new/title reach the
\* native call unchanged (title null when never set), and the buffers they
\* point to are never written.
CallerBuffers == [i \in StrIdx |-> w(Strs[i])]

C9_RawPassThrough ==
    /\ mem = CallerBuffers
    /\ pc = "build" =>
          /\ raw.text = CallerPtr(text_arg)
          /\ raw.title = IF title_arg = 0 THEN NULL ELSE CallerPtr(title_arg)
    /\ pc = "native" =>
          /\ raw_call.lpText = CallerPtr(text_arg)
          /\ raw_call.lpCaption =
                IF title_arg = 0 THEN NULL ELSE CallerPtr(title_arg)

C9_Witness ==
    /\ pc = "native"
    /\ text_arg = 3
    /\ title_arg = 2
    /\ raw_call.lpText = CallerPtr(3)
    /\ raw_call.lpCaption = CallerPtr(2)
    /\ Deref(raw_call.lpCaption) = <<65, 0, 65535, 0>>

(***************************************************************************)
(* C10                                                                     *)
(***************************************************************************)
\* C10: for the same button-set type and the same chain of configuration
\* calls, the safe and the raw builder pass the same owner handle and the same
\* style to the native call, and return the same Result for the same return
\* code and last-error code.
C10_SafeRawEquivalent ==
    /\ pc = "build" =>
          /\ safe.icon = raw.icon
          /\ safe.hwnd = raw.hwnd
          /\ safe.flags = raw.flags
    /\ pc = "native" =>
          /\ safe_call.hWnd = raw_call.hWnd
          /\ safe_call.uType = raw_call.uType
    /\ pc = "done" => safe_result = raw_result

\* error(text).hwnd(1).topmost() on both builders
C10_Witness ==
    /\ pc = "native"
    /\ safe.icon = "Error"
    /\ safe_call.hWnd = 1
    /\ raw_call.hWnd = 1
    /\ "topmost" \in aux_called
    /\ raw_call.uType = flags(T) + MB_ICONERROR + MB_TOPMOST

(***************************************************************************)
(* C11                                                                     *)
(***************************************************************************)
\* the button-set types with a Cancel button
CancelTypes == {"OkayCancel", "RetryCancel", "YesNoCancel",
                "CancelTryAgainContinue"}

\* C11: when ESC ends the dialog, show returns Cancel if the button set has a
\* Cancel button, and Okay if it has none but has an OK button (Okay); with
\* YesNo and AbortRetryIgnore ESC never ends the dialog: show does not return.
C11_Escape ==
    (pc = "done" /\ dismissed = "escape") =>
        IF T \in CancelTypes
        THEN /\ safe_result = Ok("Cancel")
             /\ raw_result = Ok("Cancel")
        ELSE /\ T = "Okay"
             /\ safe_result = Ok("Okay")
             /\ raw_result = Ok("Okay")

C11_Witness ==
    /\ pc = "done"
    /\ dismissed = "escape"
    /\ T = "OkayCancel"
    /\ ret = IDCANCEL
    /\ safe_result = Ok("Cancel")

(***************************************************************************)
(* C12                                                                     *)
(***************************************************************************)
\* C12 as claimed: no request reaches the native call with both the
\* service-notification flag set and a non-null owner handle.
C12_Exclusive ==
    pc = "native" =>
        /\ ~ (/\ BitAnd(safe_call.uType, MB_SERVICE_NOTIFICATION) # 0
              /\ safe_call.hWnd # 0)
        /\ ~ (/\ BitAnd(raw_call.uType, MB_SERVICE_NOTIFICATION) # 0
              /\ raw_call.hWnd # 0)

\* C12 as amended: the builder enforces nothing; a request reaches the native
\* call with both exactly when the chain called service_notification and its
\* last hwnd call gave a non-null handle, so the two never occur together for
\* a chain that gives hwnd no non-null handle.
C12_ExclusiveIfCallerObeys ==
    pc = "native" =>
        /\ (/\ safe_call.hWnd # 0
            /\ BitAnd(safe_call.uType, MB_SERVICE_NOTIFICATION) # 0)
              <=> ("service_notification" \in aux_called /\ hwnd_arg # 0)
        /\ (/\ raw_call.hWnd # 0
            /\ BitAnd(raw_call.uType, MB_SERVICE_NOTIFICATION) # 0)
              <=> ("service_notification" \in aux_called /\ hwnd_arg # 0)

\* service_notification() with the owner left null
C12_Witness ==
    /\ pc = "native"
    /\ "service_notification" \in aux_called
    /\ hwnd_arg = 0
    /\ BitAnd(safe_call.uType, MB_SERVICE_NOTIFICATION) # 0
    /\ safe_call.hWnd = 0

(***************************************************************************)
(* C13                                                                     *)
(***************************************************************************)
\* C13: each show calls MessageBoxW exactly once and returns one result; a
\* failed call is not repeated, and the last error is read once, on the
\* failure path only.
C13_OneCallOneResult ==
    /\ pc = "build" =>
          /\ native_calls = [safe |-> 0, raw |-> 0]
          /\ error_reads = [safe |-> 0, raw |-> 0]
          /\ safe_result = NoResult /\ raw_result = NoResult
    /\ pc = "native" =>
          /\ native_calls = [safe |-> 1, raw |-> 1]
          /\ error_reads = [safe |-> 0, raw |-> 0]
          /\ safe_result = NoResult /\ raw_result = NoResult
    /\ pc = "done" =>
          /\ native_calls = [safe |-> 1, raw |-> 1]
          /\ error_reads.safe = (IF ret = 0 THEN 1 ELSE 0)
          /\ error_reads.raw = (IF ret = 0 THEN 1 ELSE 0)
          /\ safe_result # NoResult /\ raw_result # NoResult

\* a failed call: one invocation, one read of the last error, one Err
C13_Witness ==
    /\ pc = "done"
    /\ ret = 0
    /\ native_calls = [safe |-> 1, raw |-> 1]
    /\ error_reads = [safe |-> 1, raw |-> 1]
    /\ safe_result = Err(last_error)

(***************************************************************************)
(* C14                                                                     *)
(***************************************************************************)
\* the four classes of icons
IconClass(ic) ==
    CASE ic \in {"Exclamation", "Warning"} -> "exclamation"
      [] ic \in {"Information", "Asterisk"} -> "information"
      [] ic \in {"Stop", "Error", "Hand"} -> "stop"
      [] ic = "Question" -> "question"

\* two icons give the same flag exactly when they are of the same class
IconAliasing ==
    /\ Cardinality(IconFlags) = 4
    /\ \A i \in Icons : \A j \in Icons :
          (style(i) = style(j)) <=> (IconClass(i) = IconClass(j))

\* C14: Icon::style maps the eight icons onto four distinct flags, one per
\* class (Exclamation/Warning, Information/Asterisk, Stop/Error/Hand,
\* Question), and the style of a request carries the flag of its icon's class.
C14_IconClasses ==
    /\ IconAliasing
    /\ pc = "native" =>
          LET bits == BitAnd(safe_call.uType, IconMask) IN
          \A ic \in Icons :
              (bits = style(ic)) <=> (IconClass(ic) = IconClass(icon_arg))

C14_Witness ==
    /\ pc = "native"
    /\ icon_arg = "Hand"
    /\ BitAnd(safe_call.uType, IconMask) = MB_ICONSTOP
    /\ BitAnd(safe_call.uType, IconMask) = MB_ICONERROR

(***************************************************************************)
(* C15                                                                     *)
(***************************************************************************)
\* C15: the icon is overwritten, never accumulated: a convenience constructor
\* and every icon call change the icon field alone (text, title, owner and
\* flags stay), and the icon bits of the composed style are the flag of the
\* last icon set.
C15_IconOverwritten ==
    /\ [](pc = "native" =>
             /\ BitAnd(safe_call.uType, IconMask) = style(icon_arg)
             /\ BitAnd(raw_call.uType, IconMask) = style(icon_arg))
    /\ [][(Ctor \/ CallIcon) =>
             /\ safe' = [safe EXCEPT !.icon = icon_arg']
             /\ raw' = [raw EXCEPT !.icon = icon_arg']]_vars

\* three icons set in a row, nothing else configured
C15_Witness ==
    /\ pc = "native"
    /\ calls = 3
    /\ icon_arg = "Warning"
    /\ safe.flags = 0
    /\ title_arg = 0
    /\ hwnd_arg = 0
    /\ safe_call.uType = flags(T) + MB_ICONWARNING

(***************************************************************************)
(* C16                                                                     *)
(***************************************************************************)
\* C16: when the last default_button call of the chain is default_button(b),
\* the default-button bits of the style passed to the native call are the
\* flag of b.
C16_LastDefaultButton ==
    (pc = "native" /\ defbtn_arg # "none") =>
        /\ BitAnd(safe_call.uType, DefaultButtonMask) =
              DefaultButton_as_u32(defbtn_arg)
        /\ BitAnd(raw_call.uType, DefaultButtonMask) =
              DefaultButton_as_u32(defbtn_arg)

(***************************************************************************)
(* C17                                                                     *)
(***************************************************************************)
\* the case named after a button
CaseOfButton(id) ==
    CASE id = IDOK -> "Okay"
      [] id = IDCANCEL -> "Cancel"
      [] id = IDABORT -> "Abort"
      [] id = IDRETRY -> "Retry"
      [] id = IDIGNORE -> "Ignore"
      [] id = IDYES -> "Yes"
      [] id = IDNO -> "No"
      [] id = IDTRYAGAIN -> "TryAgain"
      [] id = IDCONTINUE -> "Continue"

\* from_result maps the identifier of every displayed button to its own case
ButtonsReportThemselves ==
    \A ty \in Types : \A b \in DialogButtons(flags(ty)) :
        /\ CaseOfButton(b) \in Cases(ty)
        /\ from(ty, b) = CaseOfButton(b)

\* C17: for every button-set type and every button it displays, from_result
\* of the button's identifier is the case named after the button, so a dialog
\* ended through one of its buttons is reported as that button.
C17_ButtonsReportThemselves ==
    /\ ButtonsReportThemselves
    /\ (pc = "done" /\ dismissed = "button") =>
          /\ safe_result = Ok(CaseOfButton(ret))
          /\ raw_result = Ok(CaseOfButton(ret))

\* the Ignore button, reached through the fallback arm
C17_Witness ==
    /\ pc = "done"
    /\ dismissed = "button"
    /\ T = "AbortRetryIgnore"
    /\ ret = IDIGNORE
    /\ safe_result = Ok("Ignore")

====
